---- MODULE Spec2Model ----
(***************************************************************************)
(* Model of SlackEventHandler (src/src/SlackEventHandler.ts): the handling *)
(* of one inbound Slack event by `handle` and the branch handlers it       *)
(* dispatches to.  One handle call is in flight at a time; it is suspended *)
(* at each `await`, and only there may the rest of the bridge act on the   *)
(* rooms (the JavaScript run-to-completion rule).  Every call on a         *)
(* collaborator is appended to `trace` when it is made.                    *)
(***************************************************************************)
EXTENDS Naturals, Sequences, FiniteSets, TLC

\* ---------------------------------------------------------------- bounds
MaxEvents == 2        \* events handled one after the other in a behaviour
MaxAttachments == 2   \* longest attachment list of a message event

\* ------------------------------------------------------------- JS values
HTTP_OK == 200

Undef == "undefined"

\* The values `err` can hold: null, a string, or an Error object.
\* `new Error(m)` is an object: it is never === to a string.
NullVal == [tag |-> "null", val |-> "null"]
StrVal(s) == [tag |-> "string", val |-> s]
ErrorObj(m) == [tag |-> "Error", val |-> m]

\* err === "<s>"
StrictEq(v, s) == v = StrVal(s)

\* a || b
Falsy(a) == a \in {Undef, ""}
OrElse(a, b) == IF Falsy(a) THEN b ELSE a

\* ----------------------------------------------------------------- texts
\* A text is a sequence of tokens; the mention resolver substitutes the
\* display name for a raw mention token.
MentionToken == "@bob"
DisplayName == "Bob"
TextHello == <<"hello", MentionToken>>
TextEdited == <<"edited", MentionToken>>
TextPrev == <<"before", MentionToken>>
TextFallback == <<"att", MentionToken>>
TextEmpty == <<>>
NoText == <<Undef>>

ResolvedText(t) == [i \in DOMAIN t |-> IF t[i] = MentionToken THEN DisplayName ELSE t[i]]

\* ----------------------------------------------------------------- rooms
RoomIds == {"C1", "C2", "C3"}
RoomOrder == <<"C1", "C2", "C3">>
UnknownChannel == "CX"
BridgeBot == "B1"
OtherBot == "B2"
OldDomain == "old"
NewDomain == "new"

\* BridgedRoom's setters mark the room dirty when the value changes.
SetField(r, f, v) == IF r[f] = v THEN r ELSE [r EXCEPT ![f] = v, !.isDirty = TRUE]

\* main.datastore: the bridged messages it holds, by channel and timestamp.
StoredTs == "ts1"
MissingTs == "ts2"
NoStoredEvent == [found |-> FALSE, roomId |-> Undef, eventId |-> Undef]
GetEventBySlackId(ch, ts) ==
    IF ch = "C1" /\ ts = StoredTs
    THEN [found |-> TRUE, roomId |-> "!r1", eventId |-> "$e1"]
    ELSE NoStoredEvent

\* ---------------------------------------------------------------- events
NoMessage == [present |-> FALSE, user |-> Undef, bot_id |-> Undef, text |-> NoText]
EditedMessage(b) == [present |-> TRUE, user |-> "U2", bot_id |-> b, text |-> TextEdited]
NoPrevious == [present |-> FALSE, text |-> NoText]
PreviousMessage == [present |-> TRUE, text |-> TextPrev]
NoComment == [present |-> FALSE, user |-> Undef]
Comment == [present |-> TRUE, user |-> "U3"]

BaseEvent(type) ==
    [type |-> type, channel |-> Undef, subtype |-> Undef, user |-> "U1", bot_id |-> Undef,
     text |-> TextHello, hasAttachments |-> FALSE, attachments |-> <<>>,
     message |-> NoMessage, previous_message |-> NoPrevious, deleted_ts |-> Undef,
     file |-> Undef, comment |-> NoComment, item_channel |-> Undef,
     id |-> Undef, name |-> Undef, domain |-> Undef]

Actors == {<<"U1", Undef>>, <<Undef, BridgeBot>>, <<Undef, OtherBot>>}

\* Attachment lists: absent, empty, or up to MaxAttachments fallback texts.
NoAttachments == [has |-> FALSE, list |-> <<>>]
AttachmentLists ==
    {[has |-> TRUE, list |-> <<>>]} \cup
    {[has |-> TRUE, list |-> [i \in 1..n |-> IF i = 1 THEN f ELSE TextHello]] :
        n \in 1..MaxAttachments, f \in {TextFallback, TextEmpty}}
AttachmentChoices == {NoAttachments} \cup AttachmentLists
FewAttachmentChoices == {NoAttachments, [has |-> TRUE, list |-> <<TextFallback>>]}

Msg(ch, st, ub, tx, att) ==
    [BaseEvent("message") EXCEPT !.channel = ch, !.subtype = st, !.user = ub[1],
        !.bot_id = ub[2], !.text = tx, !.hasAttachments = att.has, !.attachments = att.list]

SimpleSubtypes == {Undef, "bot_message", "channel_topic", "group_topic", "message_replied"}
MessageSubtypes == SimpleSubtypes \cup
    {"file_comment", "message_changed", "message_deleted", "file_share"}

SimpleMessages ==
    {Msg("C1", st, ub, TextHello, att) :
        st \in SimpleSubtypes, ub \in Actors, att \in AttachmentChoices} \cup
    {Msg("C1", st, <<"U1", Undef>>, TextEmpty, [has |-> TRUE, list |-> <<>>]) :
        st \in SimpleSubtypes}

FileCommentMessages ==
    {[Msg("C1", "file_comment", ub, TextHello, att) EXCEPT !.comment = c] :
        ub \in Actors, att \in FewAttachmentChoices, c \in {NoComment, Comment}}

EditShapes ==
    {<<EditedMessage(b), PreviousMessage>> : b \in {Undef, BridgeBot, OtherBot}} \cup
    {<<EditedMessage(Undef), NoPrevious>>, <<NoMessage, PreviousMessage>>}
ChangedMessages ==
    {[Msg("C1", "message_changed", ub, TextHello, att) EXCEPT
            !.message = sh[1], !.previous_message = sh[2]] :
        ub \in Actors, att \in FewAttachmentChoices, sh \in EditShapes}

DeletedMessages ==
    {[Msg("C1", "message_deleted", <<"U1", Undef>>, TextHello, att) EXCEPT !.deleted_ts = ts] :
        att \in FewAttachmentChoices, ts \in {StoredTs, MissingTs}}

FileShareMessages ==
    {[Msg("C1", "file_share", ub, TextHello, att) EXCEPT !.file = f] :
        ub \in {<<"U1", Undef>>, <<Undef, OtherBot>>}, att \in FewAttachmentChoices,
        f \in {Undef, "F1"}}

UnknownChannelMessages ==
    {Msg(UnknownChannel, st, <<"U1", Undef>>, TextHello, NoAttachments) : st \in MessageSubtypes}

MessageEvents ==
    SimpleMessages \cup FileCommentMessages \cup ChangedMessages \cup DeletedMessages
    \cup FileShareMessages \cup UnknownChannelMessages

\* The reaction's own channel field differs from its target item's channel.
ReactionEvents ==
    {[BaseEvent(ty) EXCEPT !.channel = "C2", !.item_channel = ch] :
        ty \in {"reaction_added", "reaction_removed"}, ch \in {"C1", UnknownChannel}}
RenameEvents ==
    {[BaseEvent("channel_rename") EXCEPT !.id = ch, !.name = "general"] :
        ch \in {"C1", UnknownChannel}}
DomainChangeEvents ==
    {[BaseEvent("team_domain_change") EXCEPT !.domain = d] : d \in {OldDomain, NewDomain}}
TypingEvents ==
    {[BaseEvent("user_typing") EXCEPT !.channel = ch] : ch \in {"C1", UnknownChannel}}
UnsupportedEvents ==
    {[BaseEvent(ty) EXCEPT !.channel = "C1"] : ty \in {"file_comment_added", "app_mention"}}

\* What the webhook delivers: an event and the team it came from.
Deliveries ==
    {<<e, "T1">> : e \in MessageEvents \cup ReactionEvents \cup RenameEvents
                        \cup DomainChangeEvents \cup TypingEvents \cup UnsupportedEvents}
    \cup {<<e, "T2">> : e \in DomainChangeEvents}

\* ----------------------------------------------------------------- state
VARIABLES
    rooms,     \* the registry: channel id -> BridgedRoom fields
    pc,        \* where the handle call in flight stands
    event,     \* the event object passed to handle (nested objects are shared with msg)
    teamId,    \* the teamId passed to handle
    room,      \* the channel id of the room the branch resolved
    msg,       \* the own fields of the copy Object.assign built
    content,   \* the file content fetched for a file_share
    err,       \* handle's `err`
    trace,     \* the calls made on collaborators for the event in flight, in order
    pending,   \* rooms whose upsertRoom promise has not settled
    faults,    \* the collaborator calls of the event in flight that failed
    escaped,   \* an exception left handle (its promise rejected)
    failedBefore, \* a collaborator call of an earlier event failed
    nEvents,   \* events passed to handle so far
    clientSeen \* what lines 163 and 221 read from room.SlackClient, in order

vars == <<rooms, pc, event, teamId, room, msg, content, err, trace, pending, faults, escaped,
          failedBefore, nEvents, clientSeen>>

NoMsg == [text |-> NoText, user_id |-> Undef, file |-> Undef, channel_id |-> Undef,
          team_domain |-> Undef, team_id |-> Undef]
NoContent == Undef

Call(op, ch, text, user, extra) ==
    [op |-> op, ch |-> ch, text |-> text, user |-> user, extra |-> extra,
     raw |-> FALSE, content |-> NoContent, prev |-> NoText, status |-> 0]

\* room.onSlack...(msg, teamId, content): the record handed to the room
Forward(op, m, ev, c) ==
    [Call(op, m.channel_id, m.text, m.user_id, ev.subtype) EXCEPT
        !.content = c, !.prev = ev.previous_message.text]

\* room.onSlackMessage(event, teamId): the event object itself is handed over
ForwardRaw(ev) ==
    [Call("onSlackMessage", ev.channel, ev.text, Undef, ev.subtype) EXCEPT
        !.raw = TRUE, !.prev = ev.previous_message.text]

\* The pcs at which the handle call is suspended in an await.
AwaitPcs == {"await_180", "await_196", "await_210", "await_237", "await_238",
             "await_245", "await_forward", "await_all"}

\* What a failing collaborator throws or rejects with: an Error object, as
\* the handlers' own throws are.
ErrCollaborator == ErrorObj("collaborator_failure")

InitRoom(bot, client, domain, name, dirty) ==
    [SlackBotId |-> bot, SlackClient |-> client, SlackTeamDomain |-> domain,
     SlackTeamId |-> "T1", SlackChannelName |-> <<domain, name>>, isDirty |-> dirty]

Init ==
    /\ \E bot \in {BridgeBot, Undef}, client \in BOOLEAN, dirty \in BOOLEAN :
         rooms = [c \in RoomIds |->
                    CASE c = "C1" -> InitRoom(bot, client, OldDomain, "c1", FALSE)
                      [] c = "C2" -> InitRoom(BridgeBot, TRUE, OldDomain, "c2", FALSE)
                      [] c = "C3" -> InitRoom(BridgeBot, TRUE, NewDomain, "c3", dirty)]
    /\ pc = "idle"
    /\ event = BaseEvent(Undef)
    /\ teamId = Undef
    /\ room = Undef
    /\ msg = NoMsg
    /\ content = NoContent
    /\ err = NullVal
    /\ trace = <<>>
    /\ pending = {}
    /\ faults = {}
    /\ escaped = FALSE
    /\ failedBefore = FALSE
    /\ nEvents = 0
    /\ clientSeen = <<>>

\* ------------------------------------------------------- control transfer
\* catch (e) { log.error("SlackEventHandler.handle failed:", e); }
OuterCatchRethrows == pc' = "done" /\ escaped' = TRUE
OuterCatch == pc' = "done" /\ escaped' = escaped

\* catch (ex) { log.warn("Didn't handle event:", ex); err = ex; }
InnerCatch(ex) == err' = ex /\ pc' = "classify"

\* the branch handler returns: handle goes on after its await
BranchReturns == err' = err /\ pc' = "classify"

\* a call on a collaborator throws, or the promise it returned rejects
Fails(op) == faults' = faults \cup {op}

\* ----------------------------------------------------------------- handle
\* lines 70-77: start the timer, acknowledge the webhook.
Handle(e, t) ==
    /\ pc = "idle"
    /\ nEvents < MaxEvents
    /\ nEvents' = nEvents + 1
    /\ event' = e
    /\ teamId' = t
    /\ \E timerThrows \in BOOLEAN :
         IF timerThrows
         THEN /\ trace' = <<Call("startTimer", Undef, NoText, Undef, "remote_request_seconds")>>
              /\ Fails("startTimer")
              /\ OuterCatch
         ELSE /\ trace' = <<Call("startTimer", Undef, NoText, Undef, "remote_request_seconds"),
                            [Call("response", Undef, NoText, Undef, "OK") EXCEPT !.status = HTTP_OK]>>
              /\ pc' = "switch"
              /\ UNCHANGED <<faults, escaped>>
    /\ UNCHANGED <<rooms, room, msg, content, err, pending, failedBefore, clientSeen>>

\* lines 81-102: switch (event.type)
BranchOfFileComment(type) ==
    CASE type \in {"message", "file_comment_added"} -> "hme_138"
      [] type \in {"reaction_added", "reaction_removed"} -> "hr_252"
      [] type = "channel_rename" -> "hcr_283"
      [] type = "team_domain_change" -> "hdc_273"
      [] type = "user_typing" -> "ht_294"
      [] OTHER -> "unknown_event"
BranchOf(type) ==
    CASE type = "message" -> "hme_138"
      [] type \in {"reaction_added", "reaction_removed"} -> "hr_252"
      [] type = "channel_rename" -> "hcr_283"
      [] type = "team_domain_change" -> "hdc_273"
      [] type = "user_typing" -> "ht_294"
      [] OTHER -> "unknown_event"

Dispatch ==
    /\ pc = "switch"
    /\ IF BranchOf(event.type) = "unknown_event"
       THEN /\ err' = StrVal("unknown_event")
            /\ pc' = "classify"
       ELSE /\ pc' = BranchOf(event.type)
            /\ err' = err
    /\ UNCHANGED <<rooms, event, teamId, room, msg, content, trace, pending, faults, escaped, failedBefore, nEvents, clientSeen>>

\* lines 108-124: the calls that record the outcome, in order, for a value of err
OutcomeCallsTwice(e) ==
    IF StrictEq(e, "unknown_channel")
    THEN <<Call("warn_unknown_channel", event.channel, NoText, Undef, teamId),
           Call("incCounter", Undef, NoText, Undef, "received_messages"),
           Call("endTimer", Undef, NoText, Undef, "dropped")>>
    ELSE (IF StrictEq(e, "unknown_event")
          THEN <<Call("endTimer", Undef, NoText, Undef, "dropped")>>
          ELSE IF e # NullVal
          THEN <<Call("endTimer", Undef, NoText, Undef, "fail")>>
          ELSE <<>>)
         \o (IF e = NullVal \/ StrictEq(e, "unknown_event")
             THEN <<Call("endTimer", Undef, NoText, Undef, "success")>>
             ELSE <<>>)
OutcomeCalls(e) ==
    IF StrictEq(e, "unknown_channel")
    THEN <<Call("warn_unknown_channel", event.channel, NoText, Undef, teamId),
           Call("incCounter", Undef, NoText, Undef, "received_messages"),
           Call("endTimer", Undef, NoText, Undef, "dropped")>>
    ELSE (IF StrictEq(e, "unknown_event")
          THEN <<Call("endTimer", Undef, NoText, Undef, "dropped")>>
          ELSE IF e # NullVal
          THEN <<Call("endTimer", Undef, NoText, Undef, "fail")>>
          ELSE <<>>)
         \o (IF e = NullVal
             THEN <<Call("endTimer", Undef, NoText, Undef, "success")>>
             ELSE <<>>)

\* A counter or timer call may throw: the calls stop with the one that threw,
\* and the outer catch takes over.
RecordOutcome ==
    /\ pc = "classify"
    /\ \E made \in 1..Len(OutcomeCalls(err)), threw \in BOOLEAN :
         /\ trace' = trace \o SubSeq(OutcomeCalls(err), 1, made)
         /\ OutcomeCalls(err)[made].op # "warn_unknown_channel"
         /\ made < Len(OutcomeCalls(err)) => threw
         /\ IF threw THEN Fails(OutcomeCalls(err)[made].op) ELSE faults' = faults
         /\ OuterCatch
    /\ UNCHANGED <<rooms, event, teamId, room, msg, content, err, pending, failedBefore, nEvents, clientSeen>>

\* ----------------------------------------------------- handleMessageEvent
LookupCall(ch) == Call("getRoomBySlackChannelId", ch, NoText, Undef, "")

\* lines 138-139 (and 252-253, 283-284, 294-295): resolve the room or throw.
\* The lookup itself may fail; an unregistered channel gives no room.
LookupThrows(ch, registryFails) == registryFails \/ ch \notin RoomIds
LookupError(ch, registryFails) ==
    IF registryFails THEN ErrCollaborator ELSE ErrorObj("unknown_channel")
LookupFaults(registryFails) ==
    IF registryFails THEN faults \cup {"getRoomBySlackChannelId"} ELSE faults

MessageLookup ==
    /\ pc = "hme_138"
    /\ trace' = Append(trace, LookupCall(event.channel))
    /\ \E registryFails \in BOOLEAN :
         IF LookupThrows(event.channel, registryFails)
         THEN /\ InnerCatch(LookupError(event.channel, registryFails))
              /\ faults' = LookupFaults(registryFails)
              /\ room' = room
         ELSE room' = event.channel /\ pc' = "hme_141" /\ UNCHANGED <<err, faults>>
    /\ UNCHANGED <<rooms, event, teamId, msg, content, pending, escaped, failedBefore, nEvents, clientSeen>>

\* lines 141-142: the bridge's own echo
IsBridgeEchoAnyBot(ev, r) == ev.subtype = "bot_message"
IsBridgeEchoKnownBotOnly(ev, r) == ev.subtype = "bot_message" /\ ev.bot_id = r.SlackBotId
IsBridgeEcho(ev, r) ==
    ev.subtype = "bot_message" /\ (Falsy(r.SlackBotId) \/ ev.bot_id = r.SlackBotId)

\* lines 151-156: Object.assign({}, event, {...})
Normalized(ev, r, ch, t) ==
    [text |-> ev.text, user_id |-> OrElse(ev.user, ev.bot_id), file |-> ev.file,
     channel_id |-> ch, team_domain |-> OrElse(r.SlackTeamDomain, r.SlackTeamId),
     team_id |-> t]

\* lines 141-156
EchoCheckAndCount ==
    /\ pc = "hme_141"
    /\ IF IsBridgeEcho(event, rooms[room])
       THEN BranchReturns /\ UNCHANGED <<trace, msg, faults>>
       ELSE /\ trace' = Append(trace, Call("incCounter", Undef, NoText, Undef, "received_messages"))
            /\ \E counterThrows \in BOOLEAN :
                 IF counterThrows
                 THEN InnerCatch(ErrCollaborator) /\ Fails("incCounter") /\ msg' = msg
                 ELSE /\ msg' = Normalized(event, rooms[room], event.channel, teamId)
                      /\ pc' = "hme_163"
                      /\ UNCHANGED <<err, faults>>
    /\ UNCHANGED <<rooms, event, teamId, room, content, pending, escaped, failedBefore, nEvents, clientSeen>>

IsTopic(ev) == ev.subtype \in {"channel_topic", "group_topic"}

\* this.doChannelUserReplacements(msg, text, room.SlackClient): the record
\* passed is msg as it stands at the call
ResolveCallBeforeRepair(m, text) ==
    Call("doChannelUserReplacements", m.channel_id, text, OrElse(event.user, event.bot_id), "")
ResolveCall(m, text) == Call("doChannelUserReplacements", m.channel_id, text, m.user_id, "")
\* lines 196-198: the call whose result goes to msg.previous_message.text
ResolvePreviousCall(m, text) == [ResolveCall(m, text) EXCEPT !.extra = "previous_message"]

\* line 163: if (!room.SlackClient), tested before the subtype is looked at
NoClientUnlessTopic(r, ev) == ~r.SlackClient /\ ~IsTopic(ev)
NoClient(r, ev) == ~r.SlackClient

\* lines 163-187: degraded forward, topic, attachments
FirstCapabilityCheck ==
    /\ pc = "hme_163"
    /\ clientSeen' = Append(clientSeen, rooms[room].SlackClient)
    /\ IF NoClient(rooms[room], event)
       THEN /\ trace' = Append(trace, Forward("onSlackMessage", msg, event, NoContent))
            /\ pc' = "await_forward"
            /\ UNCHANGED <<msg, err>>
       ELSE IF IsTopic(event)
       THEN /\ trace' = Append(trace, Forward("onSlackTopic", msg, event, NoContent))
            /\ pc' = "await_forward"
            /\ UNCHANGED <<msg, err>>
       ELSE IF event.hasAttachments /\ Len(event.attachments) > 0
       THEN /\ msg' = [msg EXCEPT !.text = event.attachments[1]]
            /\ trace' = Append(trace, ResolveCall(msg, event.attachments[1]))
            /\ pc' = "await_180"
            /\ err' = err
       ELSE IF event.hasAttachments /\ msg.text = TextEmpty
       THEN BranchReturns /\ UNCHANGED <<trace, msg>>
       ELSE /\ pc' = "hme_191"
            /\ UNCHANGED <<trace, msg, err>>
    /\ UNCHANGED <<rooms, event, teamId, room, content, pending, faults, escaped, failedBefore, nEvents>>

\* lines 180-181: the first attachment's text comes back, forward it
AttachmentResolved ==
    /\ pc = "await_180"
    /\ \/ /\ msg' = [msg EXCEPT !.text = ResolvedText(msg.text)]
          /\ trace' = Append(trace, Forward("onSlackMessage", msg', event, NoContent))
          /\ pc' = "await_forward"
          /\ UNCHANGED <<err, faults>>
       \/ /\ InnerCatch(ErrCollaborator)
          /\ Fails("doChannelUserReplacements")
          /\ UNCHANGED <<msg, trace>>
    /\ UNCHANGED <<rooms, event, teamId, room, content, pending, escaped, failedBefore, nEvents, clientSeen>>

\* lines 191-219: subtype repair, up to its first await
SubtypeRepair ==
    /\ pc = "hme_191"
    /\ IF event.subtype = "file_comment" /\ event.comment.present
       THEN /\ msg' = [msg EXCEPT !.user_id = event.comment.user]
            /\ pc' = "hme_221"
            /\ UNCHANGED <<trace, err>>
       ELSE IF event.subtype = "message_changed" /\ event.message.present
               /\ event.previous_message.present
       THEN /\ msg' = [msg EXCEPT !.user_id = event.message.user, !.text = event.message.text]
            /\ trace' = Append(trace, ResolvePreviousCall(msg', event.previous_message.text))
            /\ pc' = "await_196"
            /\ err' = err
       ELSE IF event.subtype = "message_deleted"
       THEN /\ trace' = Append(trace,
                   Call("getEventBySlackId", event.channel, NoText, Undef, event.deleted_ts))
            /\ pc' = "await_210"
            /\ UNCHANGED <<msg, err>>
       ELSE IF event.subtype = "message_replied"
       THEN BranchReturns /\ UNCHANGED <<trace, msg>>
       ELSE /\ pc' = "hme_221"
            /\ UNCHANGED <<trace, msg, err>>
    /\ UNCHANGED <<rooms, event, teamId, room, content, pending, faults, escaped, failedBefore, nEvents, clientSeen>>

\* lines 196-208: the previous text comes back; was the edit a bot's?
PreviousResolved ==
    /\ pc = "await_196"
    /\ \/ /\ event' = [event EXCEPT !.previous_message.text = ResolvedText(@)]
          /\ faults' = faults
          /\ IF event.message.bot_id # Undef
             THEN IF event.message.bot_id = rooms[room].SlackBotId
                  THEN BranchReturns /\ msg' = msg
                  ELSE /\ msg' = [msg EXCEPT !.user_id = event.bot_id]
                       /\ pc' = "hme_221"
                       /\ err' = err
             ELSE /\ pc' = "hme_221"
                  /\ UNCHANGED <<msg, err>>
       \/ /\ InnerCatch(ErrCollaborator)
          /\ Fails("doChannelUserReplacements")
          /\ UNCHANGED <<event, msg>>
    /\ UNCHANGED <<rooms, teamId, room, content, trace, pending, escaped, failedBefore, nEvents, clientSeen>>

\* line 211: if (originalEvent)
ShouldRedactAlways(originalEvent) == TRUE
ShouldRedact(originalEvent) == originalEvent.found

\* line 213: return botClient.redactEvent(...): the branch ends with the redaction
AfterRedactionGoesOn == "hme_221"
AfterRedaction == "await_forward"

\* lines 211-214: the if has no else: a miss leaves the subtype chain and
\* goes on with the second capability check
AfterLookupMissReturns == "classify"
AfterLookupMiss == "hme_221"

\* line 213: botClient.redactEvent(originalEvent.roomId, originalEvent.eventId)
RedactCallBySlackIds(originalEvent) ==
    Call("redactEvent", event.channel, NoText, Undef, event.deleted_ts)
RedactCall(originalEvent) ==
    Call("redactEvent", originalEvent.roomId, NoText, Undef, originalEvent.eventId)

\* lines 210-214: the datastore answers; redact what was bridged
DeletedLookedUp ==
    /\ pc = "await_210"
    /\ \/ LET originalEvent == GetEventBySlackId(event.channel, event.deleted_ts) IN
          IF ShouldRedact(originalEvent)
          THEN /\ trace' = Append(trace, RedactCall(originalEvent))
               /\ pc' = AfterRedaction
               /\ UNCHANGED <<err, faults>>
          ELSE /\ pc' = AfterLookupMiss
               /\ UNCHANGED <<trace, err, faults>>
       \/ /\ InnerCatch(ErrCollaborator)
          /\ Fails("getEventBySlackId")
          /\ trace' = trace
    /\ UNCHANGED <<rooms, event, teamId, room, msg, content, pending, escaped, failedBefore, nEvents, clientSeen>>

\* lines 221-245: the second capability check, then file access or enrichment
SecondCapabilityCheck ==
    /\ pc = "hme_221"
    /\ clientSeen' = Append(clientSeen, rooms[room].SlackClient)
    /\ IF ~rooms[room].SlackClient
       THEN /\ trace' = Append(trace, ForwardRaw(event))
            /\ pc' = "await_forward"
       ELSE IF event.subtype = "file_share" /\ ~Falsy(msg.file)
       THEN /\ trace' = Append(trace, Call("enablePublicSharing", Undef, NoText, Undef, msg.file))
            /\ pc' = "await_237"
       ELSE /\ trace' = Append(trace, ResolveCall(msg, msg.text))
            /\ pc' = "await_245"
    /\ UNCHANGED <<rooms, event, teamId, room, msg, content, err, pending, faults, escaped, failedBefore, nEvents>>

PublicFile(f) == "F1pub"
FileBytes == "bytes"

\* lines 239-245: catch { /* oh well */ }: the failure is swallowed and the
\* method goes on to enrich the text
CatchFileFailureRethrows(op) ==
    /\ Fails(op)
    /\ InnerCatch(ErrCollaborator)
    /\ trace' = trace
CatchFileFailure(op) ==
    /\ Fails(op)
    /\ err' = err
    /\ trace' = Append(trace, ResolveCall(msg, msg.text))
    /\ pc' = "await_245"

\* lines 237-238: the file was made public (or not: swallowed)
PublicSharingDone ==
    /\ pc = "await_237"
    /\ \/ /\ msg' = [msg EXCEPT !.file = PublicFile(@)]
          /\ trace' = Append(trace, Call("fetchFileContent", Undef, NoText, Undef, msg'.file))
          /\ pc' = "await_238"
          /\ UNCHANGED <<err, faults>>
       \/ /\ msg' = msg
          /\ CatchFileFailure("enablePublicSharing")
    /\ UNCHANGED <<rooms, event, teamId, room, content, pending, escaped, failedBefore, nEvents, clientSeen>>

\* lines 238-245: the bytes arrived (or not: swallowed); enrich the text
FileFetched ==
    /\ pc = "await_238"
    /\ \/ /\ content' = FileBytes
          /\ trace' = Append(trace, ResolveCall(msg, msg.text))
          /\ pc' = "await_245"
          /\ UNCHANGED <<err, faults>>
       \/ /\ content' = content
          /\ CatchFileFailure("fetchFileContent")
    /\ UNCHANGED <<rooms, event, teamId, room, msg, pending, escaped, failedBefore, nEvents, clientSeen>>

\* lines 245-246: the text comes back: forward
TextResolved ==
    /\ pc = "await_245"
    /\ \/ /\ msg' = [msg EXCEPT !.text = ResolvedText(msg.text)]
          /\ trace' = Append(trace, Forward("onSlackMessage", msg', event, content))
          /\ pc' = "await_forward"
          /\ UNCHANGED <<err, faults>>
       \/ /\ InnerCatch(ErrCollaborator)
          /\ Fails("doChannelUserReplacements")
          /\ UNCHANGED <<msg, trace>>
    /\ UNCHANGED <<rooms, event, teamId, room, content, pending, escaped, failedBefore, nEvents, clientSeen>>

\* The promise the branch returned (a forward, a redaction, an upsert) settles.
ForwardSettles ==
    /\ pc = "await_forward"
    /\ \/ BranchReturns /\ faults' = faults
       \/ InnerCatch(ErrCollaborator) /\ Fails(trace[Len(trace)].op)
    /\ UNCHANGED <<rooms, event, teamId, room, msg, content, trace, pending, escaped, failedBefore, nEvents, clientSeen>>

\* --------------------------------------------------------- handleReaction
\* line 251: const channel = event.item.channel (reactions store the channel in the item)
ReactionChannelOwn(ev) == ev.channel
ReactionChannel(ev) == ev.item_channel

\* lines 249-270
Reaction ==
    /\ pc = "hr_252"
    /\ \E registryFails \in BOOLEAN :
         LET channel == ReactionChannel(event) IN
         IF LookupThrows(channel, registryFails)
         THEN /\ InnerCatch(LookupError(channel, registryFails))
              /\ faults' = LookupFaults(registryFails)
              /\ trace' = Append(trace, LookupCall(channel))
              /\ UNCHANGED <<room, msg>>
         ELSE /\ room' = channel
              /\ faults' = faults
              /\ msg' = Normalized(event, rooms[channel], channel, teamId)
              /\ IF event.type = "reaction_added"
                 THEN /\ trace' = trace \o <<LookupCall(channel),
                                             Forward("onSlackReactionAdded", msg', event, NoContent)>>
                      /\ pc' = "await_forward"
                      /\ err' = err
                 ELSE /\ trace' = Append(trace, LookupCall(channel))
                      /\ BranchReturns
    /\ UNCHANGED <<rooms, event, teamId, content, pending, escaped, failedBefore, nEvents, clientSeen>>

\* ----------------------------------------------- handleChannelRenameEvent
\* lines 281-291
ChannelRename ==
    /\ pc = "hcr_283"
    /\ \E registryFails \in BOOLEAN :
         IF LookupThrows(event.id, registryFails)
         THEN /\ InnerCatch(LookupError(event.id, registryFails))
              /\ faults' = LookupFaults(registryFails)
              /\ trace' = Append(trace, LookupCall(event.id))
              /\ UNCHANGED <<room, rooms, pending>>
         ELSE /\ room' = event.id
              /\ faults' = faults
              /\ rooms' = [rooms EXCEPT ![event.id] =
                    SetField(@, "SlackChannelName", <<@.SlackTeamDomain, event.name>>)]
              /\ IF rooms'[event.id].isDirty
                 THEN /\ trace' = trace \o <<LookupCall(event.id),
                                             Call("upsertRoom", event.id, NoText, Undef, "")>>
                      /\ pc' = "await_forward"
                      /\ err' = err
                 ELSE /\ trace' = Append(trace, LookupCall(event.id))
                      /\ BranchReturns
              /\ pending' = pending
    /\ UNCHANGED <<event, teamId, msg, content, escaped, failedBefore, nEvents, clientSeen>>

\* ----------------------------------------------------------- handleTyping
\* lines 293-303
Typing ==
    /\ pc = "ht_294"
    /\ \E registryFails \in BOOLEAN :
         IF LookupThrows(event.channel, registryFails)
         THEN /\ InnerCatch(LookupError(event.channel, registryFails))
              /\ faults' = LookupFaults(registryFails)
              /\ trace' = Append(trace, LookupCall(event.channel))
              /\ UNCHANGED <<room, msg>>
         ELSE /\ room' = event.channel
              /\ faults' = faults
              /\ msg' = Normalized(event, rooms[event.channel], event.channel, teamId)
              /\ trace' = trace \o <<LookupCall(event.channel),
                                     Forward("onSlackTyping", msg', event, NoContent)>>
              /\ pc' = "await_forward"
              /\ err' = err
    /\ UNCHANGED <<rooms, event, teamId, content, pending, escaped, failedBefore, nEvents, clientSeen>>

\* ------------------------------------------------ handleDomainChangeEvent
\* main.getRoomsBySlackTeamId(teamId), in the registry's order
RoomsOfTeam(t) == SelectSeq(RoomOrder, LAMBDA c : rooms[c].SlackTeamId = t)

\* line 274: room.SlackTeamDomain = event.domain, for every room of the team
WithDomain(rs, t, d) ==
    [c \in RoomIds |-> IF rs[c].SlackTeamId = t
                       THEN SetField(rs[c], "SlackTeamDomain", d) ELSE rs[c]]

\* lines 275-277: the rooms for which upsertRoom is called
NeedsUpsertAll(r) == TRUE
NeedsUpsert(r) == r.isDirty

UpsertCalls(rs, order) ==
    LET dirty == SelectSeq(order, LAMBDA c : NeedsUpsert(rs[c]))
    IN  [i \in 1..Len(dirty) |-> Call("upsertRoom", dirty[i], NoText, Undef, rs[dirty[i]].SlackTeamDomain)]

\* lines 272-279: map() runs every callback up to its await before Promise.all waits
DomainChange ==
    /\ pc = "hdc_273"
    /\ \E registryFails \in BOOLEAN :
         IF registryFails
         THEN /\ trace' = Append(trace, Call("getRoomsBySlackTeamId", Undef, NoText, Undef, teamId))
              /\ InnerCatch(ErrCollaborator)
              /\ Fails("getRoomsBySlackTeamId")
              /\ UNCHANGED <<rooms, pending>>
         ELSE /\ rooms' = WithDomain(rooms, teamId, event.domain)
              /\ faults' = faults
              /\ trace' = trace
                    \o <<Call("getRoomsBySlackTeamId", Undef, NoText, Undef, teamId)>>
                    \o UpsertCalls(rooms', RoomsOfTeam(teamId))
              /\ pending' = {c \in RoomIds : rooms[c].SlackTeamId = teamId /\ NeedsUpsert(rooms'[c])}
              /\ IF pending' = {}
                 THEN BranchReturns
                 ELSE pc' = "await_all" /\ err' = err
    /\ UNCHANGED <<event, teamId, room, msg, content, escaped, failedBefore, nEvents, clientSeen>>

\* One upsertRoom promise settles.  Promise.all resolves with the last one and
\* rejects with the first rejection; the other upserts stay in flight.
UpsertSettles(c) ==
    /\ pc \in {"await_all", "done"}
    /\ c \in pending
    /\ pending' = pending \ {c}
    /\ \/ /\ IF pc = "await_all" /\ pending' = {}
             THEN BranchReturns
             ELSE UNCHANGED <<pc, err>>
          /\ faults' = faults
       \/ /\ IF pc = "await_all"
             THEN InnerCatch(ErrCollaborator)
             ELSE UNCHANGED <<pc, err>>
          /\ Fails("upsertRoom")
    /\ UNCHANGED <<rooms, event, teamId, room, msg, content, trace, escaped, failedBefore, nEvents, clientSeen>>

\* ------------------------------------------------------------ environment
\* While the handler is suspended the rest of the bridge runs: the team's
\* client (and with it room.SlackClient) can go away.
LoseSlackClient ==
    /\ pc \in AwaitPcs
    /\ room \in RoomIds
    /\ rooms[room].SlackClient
    /\ rooms' = [rooms EXCEPT ![room].SlackClient = FALSE]
    /\ UNCHANGED <<pc, event, teamId, room, msg, content, err, trace, pending, faults, escaped, failedBefore, nEvents, clientSeen>>

\* The call is over: its event, its copy and its timer are garbage, and the
\* webhook may deliver the next event.
Discard ==
    /\ pc = "done"
    /\ nEvents < MaxEvents
    /\ pc' = "idle"
    /\ event' = BaseEvent(Undef)
    /\ teamId' = Undef
    /\ room' = Undef
    /\ msg' = NoMsg
    /\ content' = NoContent
    /\ err' = NullVal
    /\ trace' = <<>>
    /\ pending' = {}
    /\ faults' = {}
    /\ failedBefore' = (failedBefore \/ faults # {})
    /\ clientSeen' = <<>>
    /\ UNCHANGED <<rooms, escaped, nEvents>>

Next ==
    \/ \E d \in Deliveries : Handle(d[1], d[2])
    \/ Dispatch
    \/ MessageLookup
    \/ EchoCheckAndCount
    \/ FirstCapabilityCheck
    \/ AttachmentResolved
    \/ SubtypeRepair
    \/ PreviousResolved
    \/ DeletedLookedUp
    \/ SecondCapabilityCheck
    \/ PublicSharingDone
    \/ FileFetched
    \/ TextResolved
    \/ ForwardSettles
    \/ Reaction
    \/ ChannelRename
    \/ Typing
    \/ DomainChange
    \/ \E c \in RoomIds : UpsertSettles(c)
    \/ RecordOutcome
    \/ Discard
    \/ LoseSlackClient

Spec == Init /\ [][Next]_vars

\* ------------------------------------------------------------ properties
Calls(op) == {i \in DOMAIN trace : trace[i].op = op}
Count(op) == Cardinality(Calls(op))

\* the outcomes recorded on the event's timer
RecordedOutcomes == {trace[i].extra : i \in Calls("endTimer")}

\* the calls that deliver something to a room
ForwardOps == {"onSlackMessage", "onSlackTopic", "onSlackReactionAdded", "onSlackTyping"}
\* the calls made on the registry, the mention resolver, the file gateway,
\* the datastore, the redaction client and the rooms
DownstreamOps == ForwardOps \cup
    {"getRoomBySlackChannelId", "getRoomsBySlackTeamId", "doChannelUserReplacements",
     "enablePublicSharing", "fetchFileContent", "getEventBySlackId", "upsertRoom",
     "redactEvent"}

InFlight == pc # "idle"
Finished == pc = "done"
\* the branch handler ran to its end or threw, and handle went on from there
BranchOver == Finished /\ Count("response") = 1

\* the channel a handler looks its room up by
LookupChannel(ev) ==
    CASE ev.type = "message" -> ev.channel
      [] ev.type \in {"reaction_added", "reaction_removed"} -> ev.item_channel
      [] ev.type = "channel_rename" -> ev.id
      [] ev.type = "user_typing" -> ev.channel
      [] OTHER -> Undef

\* C1: for every event passed to handle the response callback is invoked
\* exactly once, with status 200, before any registry, resolver, file,
\* datastore, redaction or forward call of that event, whatever the outcome.
C1_AckedOnceBeforeDownstream ==
    InFlight =>
        /\ Count("response") = 1
        /\ \A i \in Calls("response") :
             /\ trace[i].status = HTTP_OK
             /\ \A j \in DOMAIN trace : trace[j].op \in DownstreamOps => i < j

\* C2: once the branch handler has completed or thrown, exactly one outcome
\* (success, dropped or fail) is recorded on the timer: never none, never two.
C2_ExactlyOneOutcome ==
    /\ Count("endTimer") <= 1
    /\ RecordedOutcomes \subseteq {"success", "dropped", "fail"}
    /\ BranchOver => Count("endTimer") = 1
C2_Witness ==
    /\ Finished
    /\ err = ErrCollaborator
    /\ RecordedOutcomes = {"fail"}

\* C3: when no room resolves for the channel of a message, reaction, typing
\* or rename event, the outcome is dropped, the received_messages counter is
\* incremented exactly once and the unrecognised-channel warning is logged.
C3_UnknownChannelDropped ==
    (BranchOver /\ LookupChannel(event) = UnknownChannel
        /\ "getRoomBySlackChannelId" \notin faults)
    => /\ RecordedOutcomes = {"dropped"}
       /\ Count("incCounter") = 1
       /\ Count("warn_unknown_channel") = 1

\* C4: no exception leaves handle, whichever collaborator call fails, and an
\* event is handled after an earlier one failed.
C4_NoExceptionEscapes == ~escaped
C4_Witness ==
    /\ Finished
    /\ failedBefore
    /\ faults = {}
    /\ RecordedOutcomes = {"success"}

\* a bot_message of the bridge's own bot, or in a room that knows no bridge bot
C5_IsEchoCase ==
    /\ event.type = "message"
    /\ event.subtype = "bot_message"
    /\ room \in RoomIds
    /\ (rooms[room].SlackBotId = Undef \/ event.bot_id = rooms[room].SlackBotId)
\* C5: a bot_message whose bot id is the room's bridge bot id, or whose room
\* knows no bridge bot id, is never forwarded and never counted, and its
\* outcome is success, with or without privileged access.
C5_EchoSuppressed ==
    C5_IsEchoCase =>
        /\ \A i \in DOMAIN trace : trace[i].op \notin ForwardOps \cup {"incCounter"}
        /\ Finished => RecordedOutcomes = {"success"}
C5_Witness ==
    /\ C5_IsEchoCase
    /\ Finished
    /\ ~rooms[room].SlackClient
    /\ event.bot_id = BridgeBot

\* a message whose room resolved and which is no bridge echo
C6_Counted ==
    /\ event.type = "message"
    /\ room \in RoomIds
    /\ ~C5_IsEchoCase
\* C6: a message whose room resolves and which is not a bridge echo increments
\* received_messages exactly once in the whole handle call, wherever the message
\* stops and whether or not a later step fails; no event increments it twice.
C6_CountedExactlyOnce ==
    /\ Count("incCounter") <= 1
    /\ (C6_Counted /\ pc # "hme_141") => Count("incCounter") = 1
C6_Witness ==
    /\ C6_Counted
    /\ Finished
    /\ event.subtype = "bot_message"
    /\ "onSlackMessage" \in faults
    /\ Count("incCounter") = 1

\* C7: a message event makes at most one onSlackMessage or onSlackTopic call,
\* and none when it issues a redaction.
C7_AtMostOneDelivery ==
    event.type = "message" =>
        /\ Count("onSlackMessage") + Count("onSlackTopic") <= 1
        /\ Count("redactEvent") > 0 => Count("onSlackMessage") + Count("onSlackTopic") = 0
C7_Witness ==
    /\ Finished
    /\ event.type = "message"
    /\ Count("redactEvent") = 1
    /\ faults = {}

\* an event kind the switch has no branch for
C8_IsUnknownKind ==
    event.type \notin {"message", "reaction_added", "reaction_removed", "channel_rename",
                       "team_domain_change", "user_typing", Undef}
\* C8: an event of an unrecognised or unsupported kind gets the outcome
\* dropped, increments no counter and makes no downstream call.
C8_UnknownEventDropped ==
    C8_IsUnknownKind =>
        /\ \A i \in DOMAIN trace : trace[i].op \notin DownstreamOps \cup {"incCounter"}
        /\ BranchOver => RecordedOutcomes = {"dropped"}
C8_Witness ==
    /\ event.type = "file_comment_added"
    /\ BranchOver
    /\ RecordedOutcomes = {"dropped"}

\* the domain change handler got the team's rooms and mapped over them
C9_FannedOut ==
    /\ event.type = "team_domain_change"
    /\ Count("getRoomsBySlackTeamId") = 1
    /\ "getRoomsBySlackTeamId" \notin faults
C9_UpsertsOf(c) == {i \in Calls("upsertRoom") : trace[i].ch = c}
\* C9: a team_domain_change assigns the new domain to every room of the team
\* and starts upsertRoom exactly once for each room that reports dirty and for
\* no other, also when another room's upsert fails or never returns.
C9_DomainChangeFansOut ==
    C9_FannedOut =>
        \A c \in RoomIds :
            IF rooms[c].SlackTeamId = teamId
            THEN /\ rooms[c].SlackTeamDomain = event.domain
                 /\ Cardinality(C9_UpsertsOf(c)) = (IF rooms[c].isDirty THEN 1 ELSE 0)
            ELSE C9_UpsertsOf(c) = {}
C9_Witness ==
    /\ C9_FannedOut
    /\ Finished
    /\ "upsertRoom" \in faults
    /\ pending # {}
    /\ Count("upsertRoom") = 2
    /\ \A c \in RoomIds : rooms[c].SlackTeamDomain = event.domain

\* a message_deleted for which the datastore holds no bridged message
C10_IsUnmatchedDelete ==
    /\ event.type = "message"
    /\ event.subtype = "message_deleted"
    /\ ~(event.channel = "C1" /\ event.deleted_ts = StoredTs)
\* C10: a message_deleted whose channel and deleted timestamp match no bridged
\* message makes no redaction call, and its outcome is success when its room
\* resolves and no collaborator call of the event fails.
C10_UnmatchedDeleteSucceeds ==
    C10_IsUnmatchedDelete =>
        /\ Count("redactEvent") = 0
        /\ (BranchOver /\ room \in RoomIds /\ faults = {}) => RecordedOutcomes = {"success"}
C10_Witness ==
    /\ C10_IsUnmatchedDelete
    /\ BranchOver
    /\ Count("getEventBySlackId") = 1
    /\ faults = {}
    /\ RecordedOutcomes = {"success"}

\* a reaction whose target item's channel resolved to a room
C11_ReactionResolved ==
    /\ event.type \in {"reaction_added", "reaction_removed"}
    /\ room \in RoomIds
\* C11: a reaction_removed whose item channel resolves makes no forward call
\* and its outcome is success; a reaction_added makes exactly one
\* onSlackReactionAdded call, on the room of the item's channel, which is not
\* the event's own channel field.
C11_ReactionForwarding ==
    C11_ReactionResolved =>
        /\ room = event.item_channel
        /\ room # event.channel
        /\ event.type = "reaction_removed" =>
              /\ \A i \in DOMAIN trace : trace[i].op \notin ForwardOps
              /\ (BranchOver /\ faults = {}) => RecordedOutcomes = {"success"}
        /\ event.type = "reaction_added" =>
              /\ Count("onSlackReactionAdded") = 1
              /\ \A i \in DOMAIN trace :
                    trace[i].op \in ForwardOps =>
                        trace[i].op = "onSlackReactionAdded" /\ trace[i].ch = event.item_channel
C11_Witness ==
    /\ C11_ReactionResolved
    /\ event.type = "reaction_removed"
    /\ BranchOver
    /\ faults = {}
    /\ RecordedOutcomes = {"success"}
    /\ Count("getRoomBySlackChannelId") = 1

\* C12: a message event with subtype message_replied makes no forward call,
\* whether or not its room has a Slack client and whether or not it carries
\* attachments.
C12_RepliedNeverForwarded ==
    (event.type = "message" /\ event.subtype = "message_replied") =>
        \A i \in DOMAIN trace : trace[i].op \notin ForwardOps

\* the calls that enrich, look up, redact or fetch, and the topic forward
C13_EnrichmentOps ==
    {"doChannelUserReplacements", "getEventBySlackId", "redactEvent", "enablePublicSharing",
     "fetchFileContent", "onSlackTopic"}
\* a message that is no bridge echo, in a room that had no Slack client when
\* the first capability check read it
C13_Degraded ==
    /\ event.type = "message"
    /\ room \in RoomIds
    /\ ~IsBridgeEcho(event, rooms[room])
    /\ Len(clientSeen) >= 1
    /\ ~clientSeen[1]
\* C13: when the room has no Slack client and the message is no bridge echo,
\* handleMessageEvent makes exactly one onSlackMessage call and stops: for
\* every subtype no mention-resolver, datastore, redaction, file-access or
\* topic call is made, and the forwarded text is the event's text.
C13_DegradedForwardsAsIs ==
    C13_Degraded =>
        /\ Count("onSlackMessage") = 1
        /\ \A i \in Calls("onSlackMessage") :
              /\ trace[i].text = event.text
              /\ trace[i].content = NoContent
              /\ trace[i].ch = event.channel
        /\ \A i \in DOMAIN trace : trace[i].op \notin C13_EnrichmentOps
        /\ Len(clientSeen) = 1
        /\ pc \in {"await_forward", "classify", "done"}
C13_Witness ==
    /\ C13_Degraded
    /\ Finished
    /\ event.subtype = "message_changed"
    /\ event.message.present
    /\ event.previous_message.present
    /\ Count("onSlackMessage") = 1
    /\ RecordedOutcomes = {"success"}

\* a non-topic message with attachments, in a room that had a Slack client
\* when the first capability check read it
C14_WithAttachments ==
    /\ event.type = "message"
    /\ room \in RoomIds
    /\ Len(clientSeen) >= 1
    /\ clientSeen[1]
    /\ ~IsTopic(event)
    /\ event.hasAttachments
\* the text the attachments give the message: the first fallback, or the
\* message's own text when the list is empty
C14_AttachmentText ==
    IF Len(event.attachments) > 0 THEN event.attachments[1] ELSE event.text
C14_ForwardsFirstFallbackOnce ==
    /\ Count("onSlackMessage") <= 1
    /\ \A i \in DOMAIN trace :
          trace[i].op \in ForwardOps =>
              /\ trace[i].op = "onSlackMessage"
              /\ trace[i].text = ResolvedText(event.attachments[1])
    /\ (BranchOver /\ faults = {}) => Count("onSlackMessage") = 1
\* C14: a non-topic message of a room with a Slack client whose attachments
\* resolve to empty text makes no forward call; one whose first attachment
\* has text is forwarded exactly once, with the first attachment's fallback
\* after mention resolution as its text.
C14_EmptyAttachmentsDropped ==
    C14_WithAttachments =>
        /\ ResolvedText(C14_AttachmentText) = TextEmpty =>
              \A i \in DOMAIN trace : trace[i].op \notin ForwardOps
        /\ (Len(event.attachments) > 0 /\ ResolvedText(C14_AttachmentText) # TextEmpty) =>
              C14_ForwardsFirstFallbackOnce

\* an edit with both bodies and no attachments, in a room that had a Slack
\* client whenever a capability check read it
C15_Edit ==
    /\ event.type = "message"
    /\ event.subtype = "message_changed"
    /\ event.message.present
    /\ event.previous_message.present
    /\ ~event.hasAttachments
    /\ room \in RoomIds
    /\ Len(clientSeen) >= 1
    /\ \A i \in DOMAIN clientSeen : clientSeen[i]
C15_SelfEditDropped ==
    (event.message.bot_id # Undef /\ event.message.bot_id = rooms[room].SlackBotId) =>
        \A i \in DOMAIN trace : trace[i].op \notin ForwardOps
C15_BotEditAttributed ==
    (event.message.bot_id # Undef /\ event.message.bot_id # rooms[room].SlackBotId) =>
        /\ \A i \in Calls("onSlackMessage") : trace[i].user = event.message.bot_id
        /\ (BranchOver /\ faults = {}) => Count("onSlackMessage") = 1
C15_UserEditAttributed ==
    event.message.bot_id = Undef =>
        /\ \A i \in Calls("onSlackMessage") :
              /\ trace[i].user = event.message.user
              /\ trace[i].text = ResolvedText(event.message.text)
        /\ (BranchOver /\ faults = {}) => Count("onSlackMessage") = 1
\* C15: for a message_changed with both bodies: an edit by the room's bridge
\* bot is not forwarded; an edit by another bot is forwarded with that edited
\* message's bot id as user_id; an edit without bot id is forwarded with the
\* edited message's user as user_id and the edited message's text.
C15_EditAttribution ==
    C15_Edit => (C15_SelfEditDropped /\ C15_BotEditAttributed /\ C15_UserEditAttributed)

\* a deletion without attachments of a message the datastore holds, in a room
\* that had a Slack client when the first capability check read it
C16_StoredDelete ==
    /\ event.type = "message"
    /\ event.subtype = "message_deleted"
    /\ ~event.hasAttachments
    /\ room \in RoomIds
    /\ Len(clientSeen) >= 1
    /\ clientSeen[1]
    /\ GetEventBySlackId(event.channel, event.deleted_ts).found
\* C16: a message_deleted matching a stored bridged message makes exactly one
\* redaction call, for the stored room and event ids, and no onSlackMessage,
\* file-access or mention-resolver call.
C16_StoredDeleteRedacts ==
    C16_StoredDelete =>
        /\ Count("redactEvent") <= 1
        /\ \A i \in Calls("redactEvent") :
              /\ trace[i].ch = GetEventBySlackId(event.channel, event.deleted_ts).roomId
              /\ trace[i].extra = GetEventBySlackId(event.channel, event.deleted_ts).eventId
        /\ (pc \notin {"hme_191", "await_210"} /\ "getEventBySlackId" \notin faults) =>
              Count("redactEvent") = 1
        /\ \A i \in DOMAIN trace :
              trace[i].op \notin ForwardOps \cup
                  {"enablePublicSharing", "fetchFileContent", "doChannelUserReplacements"}
        /\ Len(clientSeen) = 1
C16_Witness ==
    /\ C16_StoredDelete
    /\ Finished
    /\ Count("redactEvent") = 1
    /\ ~rooms[room].SlackClient
    /\ RecordedOutcomes = {"success"}

\* a file_share with a file and no attachments, in a room that had a Slack
\* client at both capability checks, whose file access failed and nothing else
C17_FileAccessFailed ==
    /\ event.type = "message"
    /\ event.subtype = "file_share"
    /\ ~Falsy(event.file)
    /\ ~event.hasAttachments
    /\ room \in RoomIds
    /\ clientSeen = <<TRUE, TRUE>>
    /\ faults # {}
    /\ faults \subseteq {"enablePublicSharing", "fetchFileContent"}
\* C17: when enablePublicSharing or fetchFileContent fails for a file_share
\* with a file, the message is still forwarded exactly once, with the
\* mention-resolved text and no file content, and the outcome is success.
C17_FileFailureSwallowed ==
    C17_FileAccessFailed =>
        /\ err = NullVal
        /\ Count("onSlackMessage") <= 1
        /\ \A i \in Calls("onSlackMessage") :
              /\ trace[i].text = ResolvedText(event.text)
              /\ trace[i].content = NoContent
              /\ ~trace[i].raw
        /\ pc \in {"await_forward", "classify", "done"} => Count("onSlackMessage") = 1
        /\ BranchOver => RecordedOutcomes = {"success"}
C17_Witness ==
    /\ C17_FileAccessFailed
    /\ BranchOver
    /\ faults = {"fetchFileContent"}
    /\ Count("onSlackMessage") = 1
    /\ RecordedOutcomes = {"success"}

\* the resolver calls whose result becomes the forwarded text (lines 180, 245)
\* and the one that enriches an edit's previous text (line 196)
C18_TextCalls == {i \in Calls("doChannelUserReplacements") : trace[i].extra = ""}
C18_PreviousCalls == {i \in Calls("doChannelUserReplacements") : trace[i].extra = "previous_message"}
\* the call after resolver call i is the forward of what call i enriched
C18_ForwardFollows(i) ==
    /\ trace[i + 1].op = "onSlackMessage"
    /\ ~trace[i + 1].raw
    /\ trace[i + 1].user = trace[i].user
    /\ trace[i + 1].text = ResolvedText(trace[i].text)
\* C18 as stated: every doChannelUserReplacements call of a message event is
\* made with user_id already final, and the last one is immediately followed
\* by the forward call.
C18_ResolverAfterRepair ==
    event.type = "message" =>
        \A i \in Calls("doChannelUserReplacements") :
            /\ trace[i].user = msg.user_id
            /\ ((\A j \in Calls("doChannelUserReplacements") : j <= i) /\ i < Len(trace)
                    /\ "doChannelUserReplacements" \notin faults)
                => C18_ForwardFollows(i)
\* C18: the resolver call that enriches the text to forward is the last
\* resolver call of the event, is made with user_id and text already final
\* and, unless it fails, is immediately followed by the forward of its
\* result; the only earlier call enriches the previous text of an edit, with
\* the edited message's user, before a bot edit is re-attributed.
C18_TextResolverIsLastStep ==
    event.type = "message" =>
        /\ \A i \in C18_TextCalls :
              /\ trace[i].user = msg.user_id
              /\ msg.text \in {trace[i].text, ResolvedText(trace[i].text)}
              /\ \A j \in Calls("doChannelUserReplacements") : j <= i
              /\ (i < Len(trace) /\ "doChannelUserReplacements" \notin faults)
                    => C18_ForwardFollows(i)
        /\ \A i \in C18_PreviousCalls :
              /\ event.subtype = "message_changed"
              /\ trace[i].user = event.message.user
              /\ msg.user_id \in {event.message.user, event.bot_id}
              /\ \A j \in Calls("doChannelUserReplacements") : i <= j
        /\ Cardinality(C18_TextCalls) <= 1
        /\ Cardinality(C18_PreviousCalls) <= 1
C18_Witness ==
    /\ event.type = "message"
    /\ Finished
    /\ faults = {}
    /\ Cardinality(C18_PreviousCalls) = 1
    /\ Cardinality(C18_TextCalls) = 1
    /\ msg.user_id # event.message.user
    /\ Count("onSlackMessage") = 1

\* the room had a Slack client at the first capability check and none at the
\* second: it went away while subtype repair was suspended
C19_LostInRepair ==
    /\ event.type = "message"
    /\ room \in RoomIds
    /\ clientSeen = <<TRUE, FALSE>>
\* the previous text of the event as the webhook delivered it
C19_PreviousAsReceived ==
    IF event.previous_message.present THEN PreviousMessage.text ELSE NoPrevious.text
C19_RawForwardedOnce ==
    /\ Count("onSlackMessage") = 1
    /\ \A i \in Calls("onSlackMessage") : trace[i].raw /\ trace[i].text = event.text
    /\ C18_TextCalls = {}
    /\ \A i \in DOMAIN trace :
          trace[i].op \notin {"enablePublicSharing", "fetchFileContent", "onSlackTopic",
                              "redactEvent"}
    /\ pc \in {"await_forward", "classify", "done"}
\* C19: when the Slack client goes away while subtype repair is suspended, the
\* second capability check forwards the event object exactly once and stops,
\* without file access or final mention resolution, and the event forwarded
\* is as it was received.
C19_RawEventForwardedUnmodified ==
    C19_LostInRepair =>
        /\ C19_RawForwardedOnce
        /\ \A i \in Calls("onSlackMessage") : trace[i].prev = C19_PreviousAsReceived

\* a deletion without attachments of a message the datastore does not hold,
\* in a room that had a Slack client whenever a capability check read it
C20_MissedDelete ==
    /\ event.type = "message"
    /\ event.subtype = "message_deleted"
    /\ ~event.hasAttachments
    /\ room \in RoomIds
    /\ ~GetEventBySlackId(event.channel, event.deleted_ts).found
    /\ Len(clientSeen) >= 1
    /\ \A i \in DOMAIN clientSeen : clientSeen[i]
\* C20: a message_deleted whose datastore lookup finds nothing goes on to the
\* final mention resolution and is forwarded exactly once through
\* onSlackMessage, as an ordinary message with its own user and resolved text.
C20_MissedDeleteForwarded ==
    C20_MissedDelete =>
        /\ Count("redactEvent") = 0
        /\ Count("onSlackMessage") <= 1
        /\ \A i \in Calls("onSlackMessage") :
              /\ ~trace[i].raw
              /\ trace[i].text = ResolvedText(event.text)
              /\ trace[i].user = OrElse(event.user, event.bot_id)
              /\ C18_TextCalls = {i - 1}
        /\ (BranchOver /\ faults = {}) =>
              /\ Count("onSlackMessage") = 1
              /\ RecordedOutcomes = {"success"}
C20_Witness ==
    /\ C20_MissedDelete
    /\ BranchOver
    /\ faults = {}
    /\ Count("getEventBySlackId") = 1
    /\ Count("doChannelUserReplacements") = 1
    /\ Count("onSlackMessage") = 1

====
